---- MODULE Spec2Model ----
(***************************************************************************)
(* aiowiki.http.HTTPClient: the edit throttle (lock_edit, last_edit) of    *)
(* modify_page, the token fetch of get_token, the unsynchronised calls     *)
(* (userrights, login, read-only queries) and the Page.edit / Page.move    *)
(* callers, as one state machine over an asyncio event loop.               *)
(*                                                                         *)
(* One action is one run of a coroutine between two suspension points      *)
(* (await of a lock future, of asyncio.sleep, of an HTTP response).        *)
(***************************************************************************)
EXTENDS Integers, Sequences, FiniteSets, TLC

\* http.py:6
THROTTLE == 10

\* Number of concurrent modify_page callers on the one client.
NumCallers == 2

\* The event-loop clock is advanced freely up to MaxClock, and beyond it only
\* while a sleeping caller still needs time to pass.
MaxClock == 12

\* The event-loop clock is observed in steps of TickStep.
TickStep == 4

Callers == 1..NumCallers

\* The read-only queries modelled as concurrent calls.
ReadOps == {"get_info", "get_summary"}

(***************************************************************************)
(* JSON.  A decoded JSON object is the set of its <<path, leaf>> entries:   *)
(* {"error": {"info": "x"}} is {<< <<"error","info">>, "x" >>}.  An empty  *)
(* object, an empty string and null are the leaves "{}", "" and "null".    *)
(* A Python dict of form fields is the set of its <<key, value>> pairs.     *)
(***************************************************************************)
NoData == {}

IsPrefix(s, t) == Len(s) <= Len(t) /\ SubSeq(t, 1, Len(s)) = s

\* path in data, as data[k1][k2]... evaluates without KeyError
HasPath(data, path) == \E e \in data : IsPrefix(path, e[1])

\* data[k1][k2]... for a path that ends in a leaf
Leaf(data, path) == (CHOOSE e \in data : e[1] = path)[2]

\* bool(data.get(key)): the key is present and its value is not falsy
Truthy(data, key) ==
    /\ HasPath(data, <<key>>)
    /\ ~ \E e \in data : e[1] = <<key>> /\ e[2] \in {"{}", "", "null"}

Keys(m) == {e[1] : e \in m}

\* m[k] = v on a dict
Put(m, k, v) == {e \in m : e[1] # k} \cup {<<k, v>>}

Returned(v) == [kind |-> "return", val |-> v]
Raised(exc, arg) == [kind |-> exc, val |-> arg]
Pending == [kind |-> "pending", val |-> ""]

\* http.py:183
PLACEHOLDER == "+\\"

\* f"{type}token"
TokenKey(type) == CASE type = "csrf" -> "csrftoken"
                    [] type = "userrights" -> "userrightstoken"
                    [] type = "login" -> "logintoken"

\* Bodies the token endpoint can answer with, for a token of the given type.
TokenBodies(type) ==
    { {<< <<"query", "tokens", TokenKey(type)>>, "tok1" >>},
      {<< <<"query", "tokens", TokenKey(type)>>, "tok2" >>},
      {<< <<"error", "code">>, "permissiondenied" >>,
       << <<"error", "info">>, "no permission" >>},
      {<< <<"batchcomplete">>, "" >>, << <<"query", "tokens">>, "{}" >>} }

\* The two of them that suffice where only success or failure matters.
BasicTokenBodies(type) ==
    { {<< <<"query", "tokens", TokenKey(type)>>, "tok1" >>},
      {<< <<"error", "code">>, "permissiondenied" >>,
       << <<"error", "info">>, "no permission" >>} }

\* http.py:29-32: the value get_token returns or the exception it raises
TokenResult(type, data) ==
    IF HasPath(data, <<"query", "tokens", TokenKey(type)>>)
    THEN Returned(Leaf(data, <<"query", "tokens", TokenKey(type)>>))
    ELSE IF HasPath(data, <<"error", "info">>)
         THEN Raised("TokenGetError", Leaf(data, <<"error", "info">>))
         ELSE IF HasPath(data, <<"error">>)
              THEN Raised("KeyError", "info")
              ELSE Raised("KeyError", "error")

\* Bodies the server can answer a modify_page POST with.
PostBodies ==
    { {<< <<"edit", "result">>, "Success" >>},
      {<< <<"error", "code">>, "permissiondenied" >>,
       << <<"error", "info">>, "permissiondenied" >>},
      {<< <<"error", "code">>, "badtoken" >>},
      {<< <<"error">>, "{}" >>} }

BasicPostBodies ==
    { {<< <<"edit", "result">>, "Success" >>},
      {<< <<"error", "code">>, "permissiondenied" >>,
       << <<"error", "info">>, "permissiondenied" >>} }

\* http.py:189
HasError(data) == Truthy(data, "error")

\* http.py:189-191
PostResult(data) ==
    IF HasError(data)
    THEN IF HasPath(data, <<"error", "info">>)
         THEN Raised("EditError", Leaf(data, <<"error", "info">>))
         ELSE Raised("KeyError", "info")
    ELSE Returned("True")

\* page.py:99 and page.py:105-107: the fields Page.edit and Page.move build
Requests ==
    { [action |-> "edit",
       json |-> {<<"title", "Main">>, <<"text", "body">>, <<"summary", "">>}],
      [action |-> "move",
       json |-> {<<"from", "Main">>, <<"to", "Other">>, <<"reason", "">>,
                 <<"movetalk", "">>}],
      [action |-> "move",
       json |-> {<<"from", "Main">>, <<"to", "Other">>, <<"reason", "">>,
                 <<"movetalk", "">>, <<"noredirect", "">>}] }

BasicRequests == {r \in Requests : r.action = "edit"}

\* Page.edit, and Page.move with its default redirect=True.
EditMoveRequests == {r \in Requests : <<"noredirect", "">> \notin r.json}

VARIABLES
    clock,      \* asyncio.get_event_loop().time()
    last_edit,  \* HTTPClient.last_edit
    prev_edit,  \* the value last_edit held before its latest write
    logged_in,  \* HTTPClient.logged_in
    locked,     \* lock_edit._locked
    waiters,    \* lock_edit._waiters, in arrival order
    woken,      \* the waiters whose future release() has completed
    pc,         \* where each modify_page call is suspended
    queued,     \* whether the call had to wait for lock_edit
    action,     \* modify_page's action argument
    orig,       \* the fields the caller built
    json,       \* the caller's dict, as modify_page has left it
    time,       \* modify_page's local time (line 175)
    wake,       \* the clock value at which the call's sleep elapses
    auth,       \* the branch taken at line 180
    token,      \* modify_page's local token
    tokReqs,    \* requests the call has sent to the token endpoint
    tdata,      \* get_token's local data, inside modify_page
    data,       \* modify_page's local data (line 188)
    result,     \* how the call ended
    rpc,        \* the read-only calls
    rheld,      \* whether a call slept in lock_edit when the read was sent
    upc,        \* the userrights call
    uresult,
    lpc,        \* the login call
    lresult

lockVars == <<locked, waiters, woken>>
callVars == <<pc, queued, action, orig, json, time, wake, auth, token, tokReqs, tdata,
              data, result>>
editVars == <<last_edit, prev_edit>>
auxVars == <<rpc, rheld, upc, uresult, lpc, lresult>>
vars == <<clock, editVars, logged_in, lockVars, callVars, auxVars>>

\* pc values at which a call is inside `async with self.lock_edit`
InRegion == {"sleep", "token", "post"}

Holders == {p \in Callers : pc[p] \in InRegion}

Init ==
    /\ clock = 0
    /\ last_edit = 0
    /\ prev_edit = 0
    /\ logged_in \in BOOLEAN
    /\ locked = FALSE
    /\ waiters = <<>>
    /\ woken = {}
    /\ pc = [p \in Callers |-> "idle"]
    /\ queued = [p \in Callers |-> FALSE]
    /\ action = [p \in Callers |-> ""]
    /\ orig = [p \in Callers |-> {}]
    /\ json = [p \in Callers |-> {}]
    /\ time = [p \in Callers |-> 0]
    /\ wake = [p \in Callers |-> 0]
    /\ auth = [p \in Callers |-> FALSE]
    /\ token = [p \in Callers |-> ""]
    /\ tokReqs = [p \in Callers |-> 0]
    /\ tdata = [p \in Callers |-> NoData]
    /\ data = [p \in Callers |-> NoData]
    /\ result = [p \in Callers |-> Pending]
    /\ rpc = [r \in ReadOps |-> "idle"]
    /\ rheld = [r \in ReadOps |-> FALSE]
    /\ upc = "idle"
    /\ uresult = Pending
    /\ lpc = "idle"
    /\ lresult = Pending

(***************************************************************************)
(* asyncio.Lock, as modify_page uses it through `async with`.              *)
(***************************************************************************)
\* Lock.acquire takes the lock without suspending only when it is free and
\* nobody is queued for it.
\* An acquire that looks at the queue and not at _locked.
CanAcquireUnlocked == waiters = <<>>

CanAcquire == ~locked /\ waiters = <<>>

\* Lock.release: unlock, and complete the future of the first waiter.
\* A release that completes no waiter's future.
ReleaseNoWake ==
    /\ locked' = FALSE
    /\ UNCHANGED <<waiters, woken>>

Release ==
    /\ locked' = FALSE
    /\ woken' = IF waiters = <<>> THEN woken ELSE woken \cup {Head(waiters)}
    /\ UNCHANGED waiters

Without(seq, p) == SelectSeq(seq, LAMBDA q : q # p)

(***************************************************************************)
(* modify_page (http.py:172-191)                                           *)
(***************************************************************************)
\* http.py:178: the delay handed to asyncio.sleep
\* No delay at all.
SleepNone(t) == 0

SleepDelay(t) == THROTTLE - t

\* http.py:179: the value written to last_edit
\* The clock as read at line 175, before the wait.
StampEarly(t) == last_edit + t

StampValue(t) == clock

\* http.py:186: the token put into the request
\* The anonymous placeholder whatever was fetched.
InjectedPlaceholder(tok) == PLACEHOLDER

InjectedToken(tok) == tok

\* A fresh dict of the three control fields, without the caller's.
InjectClobber(j, act, tok) ==
    {<<"action", act>>, <<"format", "json">>, <<"token", tok>>}

\* http.py:184-186
Inject(j, act, tok) ==
    Put(Put(Put(j, "action", act), "format", "json"), "token", InjectedToken(tok))

\* http.py:179-187, from the write of last_edit to the first await after it:
\* the GET of get_token when logged in, the POST otherwise.  j, act and t
\* are the call's json, action and time.
Submit(p, j, act, t) ==
    /\ last_edit' = StampValue(t)
    /\ prev_edit' = last_edit
    /\ auth' = [auth EXCEPT ![p] = logged_in]
    /\ IF logged_in
       THEN /\ pc' = [pc EXCEPT ![p] = "token"]
            /\ tokReqs' = [tokReqs EXCEPT ![p] = @ + 1]
            /\ json' = [json EXCEPT ![p] = j]
            /\ UNCHANGED token
       ELSE /\ pc' = [pc EXCEPT ![p] = "post"]
            /\ token' = [token EXCEPT ![p] = PLACEHOLDER]
            /\ json' = [json EXCEPT ![p] = Inject(j, act, PLACEHOLDER)]
            /\ UNCHANGED tokReqs

\* http.py:175-178, then Submit when no sleep is needed
Enter(p, j, act) ==
    LET t == clock - last_edit IN
    IF t < THROTTLE
    THEN /\ pc' = [pc EXCEPT ![p] = "sleep"]
         /\ time' = [time EXCEPT ![p] = t]
         /\ wake' = [wake EXCEPT ![p] = clock + SleepDelay(t)]
         /\ json' = [json EXCEPT ![p] = j]
         /\ UNCHANGED <<editVars, auth, token, tokReqs>>
    ELSE /\ Submit(p, j, act, t)
         /\ UNCHANGED <<time, wake>>

\* An exit that releases the lock on return only, as acquire()/release()
\* without try/finally would.
FinishLeak(p, r) ==
    /\ pc' = [pc EXCEPT ![p] = "done"]
    /\ result' = [result EXCEPT ![p] = r]
    /\ IF r.kind = "return" THEN Release ELSE UNCHANGED lockVars

\* The end of the `async with` block, by return or by exception.
Finish(p, r) ==
    /\ pc' = [pc EXCEPT ![p] = "done"]
    /\ result' = [result EXCEPT ![p] = r]
    /\ Release

\* edit_page / move_page called from Page.edit / Page.move: modify_page runs
\* to its first suspension point.
Call(p, req) ==
    /\ pc[p] = "idle"
    /\ action' = [action EXCEPT ![p] = req.action]
    /\ orig' = [orig EXCEPT ![p] = req.json]
    /\ IF CanAcquire
       THEN /\ locked' = TRUE
            /\ UNCHANGED <<waiters, woken, queued>>
            /\ Enter(p, req.json, req.action)
       ELSE /\ waiters' = Append(waiters, p)
            /\ queued' = [queued EXCEPT ![p] = TRUE]
            /\ pc' = [pc EXCEPT ![p] = "waiting"]
            /\ json' = [json EXCEPT ![p] = req.json]
            /\ UNCHANGED <<locked, woken, editVars, time, wake, auth, token,
                           tokReqs>>
    /\ UNCHANGED <<clock, logged_in, tdata, data, result, auxVars>>

\* A waiter whose future was completed resumes inside Lock.acquire.
Resume(p) ==
    /\ pc[p] = "waiting"
    /\ p \in woken
    /\ waiters' = Without(waiters, p)
    /\ woken' = woken \ {p}
    /\ locked' = TRUE
    /\ Enter(p, json[p], action[p])
    /\ UNCHANGED <<clock, logged_in, queued, action, orig, tdata, data, result,
                   auxVars>>

\* asyncio.sleep(THROTTLE - time) has elapsed.  time is not read again, and
\* the model forgets it and the timer.
WakeUp(p) ==
    /\ pc[p] = "sleep"
    /\ clock >= wake[p]
    /\ Submit(p, json[p], action[p], time[p])
    /\ time' = [time EXCEPT ![p] = 0]
    /\ wake' = [wake EXCEPT ![p] = 0]
    /\ UNCHANGED <<clock, logged_in, lockVars, queued, action, orig, tdata,
                   data, result, auxVars>>

\* The token endpoint answers get_token("csrf") (http.py:27-32, 181-187).
TokenReply(p, body) ==
    /\ pc[p] = "token"
    /\ tdata' = [tdata EXCEPT ![p] = body]
    /\ LET r == TokenResult("csrf", body) IN
       IF r.kind = "return"
       THEN /\ token' = [token EXCEPT ![p] = r.val]
            /\ json' = [json EXCEPT ![p] = Inject(json[p], action[p], r.val)]
            /\ pc' = [pc EXCEPT ![p] = "post"]
            /\ UNCHANGED <<result, lockVars>>
       ELSE /\ Finish(p, r)
            /\ UNCHANGED <<token, json>>
    /\ UNCHANGED <<clock, editVars, logged_in, queued, action, orig, time, wake,
                   auth, tokReqs, data, auxVars>>

\* The GET of get_token fails in the HTTP layer (http.py:26-27).
TokenFail(p) ==
    /\ pc[p] = "token"
    /\ Finish(p, Raised("ClientError", ""))
    /\ UNCHANGED <<clock, editVars, logged_in, queued, action, orig, json, time,
                   wake, auth, token, tokReqs, tdata, data, auxVars>>

\* The server answers the POST (http.py:187-191).
PostReply(p, body) ==
    /\ pc[p] = "post"
    /\ data' = [data EXCEPT ![p] = body]
    /\ Finish(p, PostResult(body))
    /\ UNCHANGED <<clock, editVars, logged_in, queued, action, orig, json, time,
                   wake, auth, token, tokReqs, tdata, auxVars>>

\* The POST fails in the HTTP layer (http.py:187-188).
PostFail(p) ==
    /\ pc[p] = "post"
    /\ Finish(p, Raised("ClientError", ""))
    /\ UNCHANGED <<clock, editVars, logged_in, queued, action, orig, json, time,
                   wake, auth, token, tokReqs, tdata, data, auxVars>>

\* Time passes on the event loop's monotonic clock.
Tick ==
    /\ \/ clock < MaxClock
       \/ \E p \in Callers : pc[p] = "sleep" /\ clock < wake[p]
    /\ clock' = clock + TickStep
    /\ UNCHANGED <<editVars, logged_in, lockVars, callVars, auxVars>>

(***************************************************************************)
(* Read-only queries: get_info (http.py:95-101), get_summary (151-162).    *)
(***************************************************************************)
ReadBodies ==
    { {<< <<"query", "pages", "1", "pageid">>, "1" >>,
       << <<"query", "pages", "1", "extract">>, "text" >>},
      {<< <<"query", "pages", "-1", "missing">>, "" >>} }

\* How the read-only call op ends on the body the server sent: it returns,
\* or raises (PageNotFound at http.py:160).
ReadResult(op, body) ==
    IF op = "get_summary"
    THEN IF \E e \in body : IsPrefix(<<"query", "pages">>, e[1])
                            /\ Len(e[1]) = 4 /\ e[1][4] = "extract"
         THEN "returned"
         ELSE "raised"
    ELSE "returned"

\* A read that goes out only when lock_edit could be taken.
ReadSendLocked(op) ==
    /\ CanAcquire
    /\ rpc[op] = "idle"
    /\ rpc' = [rpc EXCEPT ![op] = "get"]
    /\ rheld' = [rheld EXCEPT ![op] = \E p \in Callers : pc[p] = "sleep"]
    /\ UNCHANGED lockVars

\* The read-only call sends its GET; no lock is involved.
ReadSend(op) ==
    /\ rpc[op] = "idle"
    /\ rpc' = [rpc EXCEPT ![op] = "get"]
    /\ rheld' = [rheld EXCEPT ![op] = \E p \in Callers : pc[p] = "sleep"]
    /\ UNCHANGED lockVars

ReadCall(op) ==
    /\ ReadSend(op)
    /\ UNCHANGED <<clock, editVars, logged_in, callVars, upc, uresult, lpc,
                   lresult>>

ReadReply(op, body) ==
    /\ rpc[op] = "get"
    /\ rpc' = [rpc EXCEPT ![op] = ReadResult(op, body)]
    /\ UNCHANGED <<rheld, clock, editVars, logged_in, lockVars, callVars, upc,
                   uresult, lpc, lresult>>

(***************************************************************************)
(* userrights (http.py:56-77)                                              *)
(***************************************************************************)
UserRightsBodies ==
    { {<< <<"userrights", "added">>, "sysop" >>,
       << <<"userrights", "removed">>, "[]" >>},
      {<< <<"userrights", "added">>, "[]" >>,
       << <<"userrights", "removed">>, "[]" >>},
      {<< <<"warnings", "userrights">>, "no such group" >>,
       << <<"userrights", "added">>, "[]" >>,
       << <<"userrights", "removed">>, "[]" >>},
      {<< <<"error", "code">>, "nosuchuser" >>,
       << <<"error", "info">>, "no such user" >>},
      {<< <<"error", "code">>, "permissiondenied" >>,
       << <<"error", "info">>, "no permission" >>} }

\* http.py:72-77: the except KeyError branch, and the return after it
UserRightsKeyError(body) ==
    IF HasPath(body, <<"error">>)
       /\ Leaf(body, <<"error", "code">>) = "nosuchuser"
    THEN Raised("NoSuchUserError", Leaf(body, <<"error", "info">>))
    ELSE Returned("True")

\* http.py:64-77
UserRightsResult(body) ==
    IF HasPath(body, <<"warnings">>)
    THEN Raised("InvalidGroupError", Leaf(body, <<"warnings", "userrights">>))
    ELSE IF ~HasPath(body, <<"userrights", "added">>)
         THEN UserRightsKeyError(body)
         ELSE IF Leaf(body, <<"userrights", "added">>) # "[]"
              THEN Returned("True")
              ELSE IF ~HasPath(body, <<"userrights", "removed">>)
                   THEN UserRightsKeyError(body)
                   ELSE IF Leaf(body, <<"userrights", "removed">>) = "[]"
                        THEN Raised("UserRightsNotChangedError", "")
                        ELSE Returned("True")

\* http.py:58: userrights starts with the GET of get_token("userrights")
UserRightsCall ==
    /\ upc = "idle"
    /\ upc' = "token"
    /\ UNCHANGED <<clock, editVars, logged_in, lockVars, callVars, rpc, rheld,
                   uresult, lpc, lresult>>

\* http.py:59-62: the POST of userrights is sent as soon as the token is in
UserRightsPost ==
    /\ upc' = "post"
    /\ UNCHANGED <<uresult, lockVars, editVars>>

UserRightsTokenReply(body) ==
    /\ upc = "token"
    /\ LET r == TokenResult("userrights", body) IN
       IF r.kind = "return"
       THEN UserRightsPost
       ELSE /\ upc' = "done"
            /\ uresult' = r
            /\ UNCHANGED <<lockVars, editVars>>
    /\ UNCHANGED <<clock, logged_in, callVars, rpc, rheld, lpc, lresult>>

UserRightsReply(body) ==
    /\ upc = "post"
    /\ upc' = "done"
    /\ uresult' = UserRightsResult(body)
    /\ UNCHANGED <<clock, editVars, logged_in, lockVars, callVars, rpc, rheld, lpc,
                   lresult>>

(***************************************************************************)
(* login (http.py:79-93)                                                   *)
(***************************************************************************)
LoginBodies ==
    { {<< <<"clientlogin", "status">>, "PASS" >>},
      {<< <<"clientlogin", "status">>, "FAIL" >>,
       << <<"clientlogin", "message">>, "wrong password" >>} }

LoginCall ==
    /\ lpc = "idle"
    /\ lpc' = "token"
    /\ UNCHANGED <<clock, editVars, logged_in, lockVars, callVars, rpc, rheld, upc,
                   uresult, lresult>>

LoginTokenReply(body) ==
    /\ lpc = "token"
    /\ LET r == TokenResult("login", body) IN
       IF r.kind = "return"
       THEN lpc' = "post" /\ UNCHANGED lresult
       ELSE lpc' = "done" /\ lresult' = r
    /\ UNCHANGED <<clock, editVars, logged_in, lockVars, callVars, rpc, rheld, upc,
                   uresult>>

\* http.py:88-93
LoginReply(body) ==
    /\ lpc = "post"
    /\ lpc' = "done"
    /\ IF Leaf(body, <<"clientlogin", "status">>) = "FAIL"
       THEN /\ lresult' = Raised("LoginFailure",
                                 Leaf(body, <<"clientlogin", "message">>))
            /\ UNCHANGED logged_in
       ELSE /\ lresult' = Returned("True")
            /\ logged_in' = TRUE
    /\ UNCHANGED <<clock, editVars, lockVars, callVars, rpc, rheld, upc, uresult>>

\* A GET or POST of the call fails in the HTTP layer; the exception leaves
\* the coroutine.
UserRightsFail ==
    /\ upc \in {"token", "post"}
    /\ upc' = "done"
    /\ uresult' = Raised("ClientError", "")
    /\ UNCHANGED <<clock, editVars, logged_in, lockVars, callVars, rpc, rheld,
                   lpc, lresult>>

LoginFail ==
    /\ lpc \in {"token", "post"}
    /\ lpc' = "done"
    /\ lresult' = Raised("ClientError", "")
    /\ UNCHANGED <<clock, editVars, logged_in, lockVars, callVars, rpc, rheld,
                   upc, uresult>>

ReadFail(op) ==
    /\ rpc[op] = "get"
    /\ rpc' = [rpc EXCEPT ![op] = "raised"]
    /\ UNCHANGED <<clock, editVars, logged_in, lockVars, callVars, rheld, upc,
                   uresult, lpc, lresult>>

(***************************************************************************)
(* The client under concurrent callers.                                    *)
(***************************************************************************)
\* The steps of the modify_page calls, with the requests the callers make
\* and the bodies the server answers with, and the passing of time.
Client(Reqs, TokBodies, Bodies) ==
    \/ \E p \in Callers, req \in Reqs : Call(p, req)
    \/ \E p \in Callers : Resume(p)
    \/ \E p \in Callers : WakeUp(p)
    \/ \E p \in Callers, body \in TokBodies : TokenReply(p, body)
    \/ \E p \in Callers : TokenFail(p)
    \/ \E p \in Callers, body \in Bodies : PostReply(p, body)
    \/ \E p \in Callers : PostFail(p)
    \/ Tick

\* The steps of login, run concurrently with the other calls.
LoginStep ==
    \/ LoginCall
    \/ \E body \in BasicTokenBodies("login") : LoginTokenReply(body)
    \/ \E body \in LoginBodies : LoginReply(body)
    \/ LoginFail

UserRightsStep ==
    \/ UserRightsCall
    \/ \E body \in BasicTokenBodies("userrights") : UserRightsTokenReply(body)
    \/ \E body \in UserRightsBodies : UserRightsReply(body)
    \/ UserRightsFail

ReadStep ==
    \/ \E op \in ReadOps : ReadCall(op)
    \/ \E op \in ReadOps, body \in ReadBodies : ReadReply(op, body)
    \/ \E op \in ReadOps : ReadFail(op)

\* Concurrent edit_page calls and a concurrent login: the throttle.
Next ==
    \/ Client(BasicRequests, BasicTokenBodies("csrf"), BasicPostBodies)
    \/ LoginStep

Spec == Init /\ [][Next]_vars

\* The same with every answer of the token endpoint.
NextTokens ==
    \/ Client(BasicRequests, TokenBodies("csrf"), BasicPostBodies)
    \/ LoginStep

SpecTokens == Init /\ [][NextTokens]_vars

\* Every answer to the POST.
NextPosts == Client(BasicRequests, BasicTokenBodies("csrf"), PostBodies)

SpecPosts == Init /\ [][NextPosts]_vars

\* Page.edit and Page.move callers.
NextFields == Client(Requests, BasicTokenBodies("csrf"), BasicPostBodies)

SpecFields == Init /\ [][NextFields]_vars

\* edit_page calls and a concurrent userrights call.
NextRights ==
    \/ Client(EditMoveRequests, BasicTokenBodies("csrf"), BasicPostBodies)
    \/ UserRightsStep

SpecRights == Init /\ [][NextRights]_vars

\* edit_page calls and concurrent read-only calls.
NextReads ==
    \/ Client(BasicRequests, BasicTokenBodies("csrf"), BasicPostBodies)
    \/ ReadStep

SpecReads == Init /\ [][NextReads]_vars

\* The event loop runs every coroutine that is ready, every HTTP request
\* ends in a response or an error, and time passes.
Fairness ==
    /\ WF_vars(Tick)
    /\ \A p \in Callers :
          /\ WF_vars(Resume(p))
          /\ WF_vars(WakeUp(p))
          /\ WF_vars((\E body \in BasicTokenBodies("csrf") : TokenReply(p, body))
                     \/ TokenFail(p))
          /\ WF_vars((\E body \in BasicPostBodies : PostReply(p, body))
                     \/ PostFail(p))

NextCalls == Client(BasicRequests, BasicTokenBodies("csrf"), BasicPostBodies)

FairSpec == Init /\ [][NextCalls]_vars /\ Fairness

(***************************************************************************)
(* Properties                                                              *)
(***************************************************************************)
\* The call p writes last_edit in this step (http.py:179).
Stamped(p) == pc[p] \in {"idle", "waiting", "sleep"} /\ pc'[p] \in {"token", "post"}

\* The call p sends its POST in this step (http.py:187).
PostSent(p) == pc[p] # "post" /\ pc'[p] = "post"

\* The call p has sent its POST.
Posted(p) == token[p] # ""

CsrfPath == <<"query", "tokens", TokenKey("csrf")>>

\* C1: at most one modify_page call at a time is between acquiring lock_edit
\* and leaving the locked region (throttle wait, write of last_edit, csrf
\* token fetch, POST), and lock_edit is held while one is.
C1_MutualExclusion ==
    /\ Cardinality(Holders) <= 1
    /\ Holders # {} => locked

C1_Witness ==
    \E p, q \in Callers : pc[p] = "post" /\ pc[q] = "waiting"

\* C2: every write of last_edit records a value at least THROTTLE greater
\* than the value it replaces, and the value is the clock as read when the
\* write is made, after the throttle wait.
C2_Pacing ==
    [][\A p \in Callers :
          Stamped(p) => /\ last_edit' >= last_edit + THROTTLE
                        /\ last_edit' = clock']_vars

C2_Witness ==
    /\ prev_edit > 0
    /\ \E p \in Callers : pc[p] \in {"token", "post"} /\ queued[p]

C4_TokenScoping ==
    [][\A p \in Callers :
          /\ Stamped(p) =>
                IF logged_in
                THEN pc'[p] = "token" /\ tokReqs'[p] = 1 /\ ~Posted(p)'
                ELSE /\ pc'[p] = "post"
                     /\ tokReqs'[p] = 0
                     /\ <<"token", PLACEHOLDER>> \in json'[p]
          /\ (pc[p] = "token" /\ PostSent(p)) =>
                /\ HasPath(tdata'[p], CsrfPath)
                /\ <<"token", Leaf(tdata'[p], CsrfPath)>> \in json'[p]
          /\ pc[p] \in {"token", "post"} =>
                tokReqs'[p] = tokReqs[p]
          /\ pc[p] = "post" => json'[p] = json[p]]_vars

\* login completed while the call, which found logged_in false, was pending
C4_Witness ==
    \E p \in Callers :
        /\ pc[p] = "post" /\ ~auth[p] /\ tokReqs[p] = 0
        /\ <<"token", PLACEHOLDER>> \in json[p]
        /\ lpc = "done" /\ lresult = Returned("True") /\ logged_in

\* C5: a response to the POST with a top-level error entry, whatever its
\* value, makes modify_page fail with EditError carrying the entry's info;
\* a response without one makes it return True.
C5_ErrorSurfacing ==
    \A p \in Callers :
        (pc[p] = "done" /\ data[p] # NoData) =>
            IF HasPath(data[p], <<"error">>)
            THEN /\ result[p].kind = "EditError"
                 /\ HasPath(data[p], <<"error", "info">>)
                 /\ result[p].val = Leaf(data[p], <<"error", "info">>)
            ELSE result[p] = Returned("True")

\* C6: lock_edit is held only while a call is inside the region, whichever
\* way the last one left it, and once it is free the first waiter has been
\* woken to take it.
C6_LockReleased ==
    /\ locked => Holders # {}
    /\ (~locked /\ waiters # <<>>) => Head(waiters) \in woken

C6_Witness ==
    \E p, q \in Callers :
        /\ pc[p] = "done" /\ result[p].kind = "TokenGetError"
        /\ queued[q] /\ pc[q] = "done" /\ result[q].kind = "ClientError"
        /\ ~locked

\* C7: a token-endpoint response without query.tokens.csrftoken makes the
\* authenticated modify_page fail with TokenGetError, with no POST sent.
C7_TokenGetError ==
    \A p \in Callers :
        (pc[p] = "done" /\ tdata[p] # NoData /\ ~HasPath(tdata[p], CsrfPath)) =>
            /\ result[p].kind = "TokenGetError"
            /\ ~Posted(p)

\* C8: a read-only call is never kept from sending its request or from
\* completing, whatever the state of lock_edit.
C8_ReadsUnsynchronized ==
    \A op \in ReadOps :
        /\ rpc[op] = "idle" => ENABLED ReadCall(op)
        /\ rpc[op] = "get" => ENABLED (\E body \in ReadBodies : ReadReply(op, body))

\* get_info was sent and answered, and get_summary sent, during the sleep of
\* p, the only call to have entered the region so far
C8_Witness ==
    \E p \in Callers :
        /\ pc[p] = "sleep" /\ clock < wake[p] /\ locked
        /\ \A q \in Callers \ {p} : pc[q] \in {"idle", "waiting"}
        /\ rheld["get_info"] /\ rpc["get_info"] = "returned"
        /\ rheld["get_summary"] /\ rpc["get_summary"] = "get"

Injected(p) ==
    /\ Keys(json[p]) = Keys(orig[p]) \cup {"action", "format", "token"}
    /\ <<"action", action[p]>> \in json[p]
    /\ <<"format", "json">> \in json[p]
    /\ \A e \in orig[p] : e[1] \notin {"action", "format", "token"} => e \in json[p]

\* C9 as claimed: after modify_page completes, on every path, the caller's
\* mapping holds the caller's keys plus action, format and token.
C9_FieldsOnEveryPath ==
    \A p \in Callers : pc[p] = "done" => Injected(p)

\* C9 as amended: that holds when the call got as far as its POST; a call
\* that failed in the csrf token fetch leaves the mapping as the caller
\* built it.
C9_FieldsWhenPosted ==
    \A p \in Callers :
        pc[p] = "done" =>
            IF Posted(p) THEN Injected(p) /\ <<"token", token[p]>> \in json[p]
            ELSE json[p] = orig[p]

C9_Witness ==
    \E p, q \in Callers :
        /\ pc[p] = "done" /\ result[p].kind = "EditError"
        /\ <<"noredirect", "">> \in json[p]
        /\ pc[q] = "done" /\ result[q].kind = "TokenGetError"
        /\ action[q] = "edit"

\* C10: every modify_page call that has started finishes.
C10_Termination ==
    \A p \in Callers : (pc[p] # "idle") ~> (pc[p] = "done")

C10_Witness ==
    \E p, q \in Callers :
        /\ pc[p] = "done" /\ result[p].kind # "return"
        /\ pc[q] = "done" /\ queued[q] /\ result[q] = Returned("True")

====
